---- MODULE Spec2Model ----
(***************************************************************************)
(* TypeLink: the two generators of the README (src/unnamed/part_000).      *)
(*                                                                         *)
(*   generate-routes.js  extractPaths / buildPathsRecord  (lines 183-258)  *)
(*   generate-types.js   the schema flattening run        (lines 108-177)  *)
(*                                                                         *)
(* A JavaScript string is modelled as the sequence of its UTF-16 code      *)
(* units, so that comparison, case mapping and the regular expressions act *)
(* on the same data as in the code.  The case mappings are those of the    *)
(* code units 0..255 (ASCII and Latin-1); text beyond that range is        *)
(* outside the model.                                                      *)
(***************************************************************************)
EXTENDS Naturals, Sequences, FiniteSets

VARIABLES
    \* ---- generate-routes.js ----
    rpc,             \* "extract" | "sorted" | "emitted": position in the script,
                     \* "thrown" once an uncaught TypeError has ended it
    members,         \* path templates of the property signatures visited so far
    paths,           \* the Map of extractPaths, as its entries in insertion order
    path,            \* callback local: path template of the entry visited last
    operationsNodes, \* the property signatures of that entry's type, in source order
    operationNames,  \* callback local: the operation keys pushed from them
    routeName,       \* callback local: the identifier synthesized for it
    result,          \* the Map extractPaths returns (entries in iteration order)
    output,          \* the lines buildPathsRecord pushes between header and footer
    \* ---- generate-types.js ----
    tpc,               \* position in the script
    written,           \* the directories and files the run has created or written
    commonRouteTypes,  \* what openapiTS resolved to: the declaration unit fetched
    routeTypesFile,    \* the unit as parsed into the project, rewritten in place
    next,              \* number of members of SchemasProperties already handled
    schemasFile,       \* the declarations added to the schemas output, in order
    pending,           \* the files whose save() has started and not completed
    outcome            \* "running" | "ok" | the uncaught error that ended the run

routeVars == <<rpc, members, paths, path, operationsNodes, operationNames, routeName,
               result, output>>
typeVars  == <<tpc, written, commonRouteTypes, routeTypesFile, next, schemasFile,
               pending, outcome>>
vars      == <<routeVars, typeVars>>

(***************************************************************************)
(* Strings                                                                 *)
(***************************************************************************)
RECURSIVE Concat(_)
Concat(ss) == IF ss = <<>> THEN <<>> ELSE Head(ss) \o Concat(Tail(ss))

IsLower(c)  == c \in 97..122
IsUpper(c)  == c \in 65..90
IsLetter(c) == IsLower(c) \/ IsUpper(c)
IsWordChar(c) == IsLetter(c) \/ c \in 48..57 \/ c = 95

\* String.fromCharCode(c).toLowerCase(), c in 0..255: one code unit
ToLower(c) ==
    IF IsUpper(c) \/ (c \in 192..222 /\ c # 215) THEN c + 32 ELSE c

\* String.fromCharCode(c).toUpperCase(), c in 0..255, as its code units: the
\* sharp s becomes "SS", the micro sign U+039C, y with diaeresis U+0178
ToUpper(c) ==
    IF IsLower(c) \/ (c \in 224..254 /\ c # 247) THEN <<c - 32>>
    ELSE IF c = 223 THEN <<83, 83>>
    ELSE IF c = 181 THEN <<924>>
    ELSE IF c = 255 THEN <<376>>
    ELSE <<c>>

toLowerCase(s) == [i \in 1..Len(s) |-> ToLower(s[i])]
toUpperCase(s) == Concat([i \in 1..Len(s) |-> ToUpper(s[i])])

\* Canonicalize of a regular expression with flag i and without flag u: the
\* upper case of the code unit, unless that is not one code unit or maps a
\* non-ASCII code unit to an ASCII one
Canonicalize(c) ==
    IF c < 128 THEN (IF IsLower(c) THEN c - 32 ELSE c)
    ELSE LET u == ToUpper(c)
         IN  IF Len(u) # 1 \/ u[1] < 128 THEN c ELSE u[1]

\* s.includes(c) for a one-character needle
includes(s, c) == \E i \in 1..Len(s) : s[i] = c

\* the text t occurs in s at index i (1-based)
OccursAt(s, t, i) ==
    /\ i + Len(t) - 1 <= Len(s)
    /\ \A k \in 1..Len(t) : s[i + k - 1] = t[k]

\* a < b in the order of String.prototype comparison: by UTF-16 code unit
StrLess(a, b) ==
    \/ /\ Len(a) < Len(b)
       /\ \A k \in 1..Len(a) : a[k] = b[k]
    \/ \E i \in 1..Len(a) :
          /\ i <= Len(b)
          /\ a[i] < b[i]
          /\ \A k \in 1..(i - 1) : a[k] = b[k]

(***************************************************************************)
(* generate-routes.js: the name of one Path Entry                          *)
(***************************************************************************)
Str_list          == <<108, 105, 115, 116>>                             \* "list"
Str_partialupdate == <<112, 97, 114, 116, 105, 97, 108, 117, 112, 100, 97, 116, 101>>  \* "partialupdate"
Str_update        == <<117, 112, 100, 97, 116, 101>>                    \* "update"
Str_retrieve      == <<114, 101, 116, 114, 105, 101, 118, 101>>         \* "retrieve"
Str_destroy       == <<100, 101, 115, 116, 114, 111, 121>>              \* "destroy"
Suffix_list       == <<95, 108, 105, 115, 116>>                         \* "_list"
Suffix_detail     == <<95, 100, 101, 116, 97, 105, 108>>                \* "_detail"

\* '^(list|create|partialUpdate|update|retrieve|destroy)': the alternatives in
\* the order the regular expression tries them
regex ==
    << <<108, 105, 115, 116>>,                                             \* list
       <<99, 114, 101, 97, 116, 101>>,                                     \* create
       <<112, 97, 114, 116, 105, 97, 108, 85, 112, 100, 97, 116, 101>>,    \* partialUpdate
       <<117, 112, 100, 97, 116, 101>>,                                    \* update
       <<114, 101, 116, 114, 105, 101, 118, 101>>,                         \* retrieve
       <<100, 101, 115, 116, 114, 111, 121>> >>                            \* destroy

\* the alternative alt matches at the start of operationName under flag i
MatchesAlt(operationName, alt) ==
    /\ Len(alt) <= Len(operationName)
    /\ \A k \in 1..Len(alt) : Canonicalize(operationName[k]) = Canonicalize(alt[k])

\* operationName.match(new RegExp(regex, 'i')): index of the first alternative
\* that matches, 0 for null
match(operationName) ==
    IF \E a \in 1..Len(regex) : MatchesAlt(operationName, regex[a])
    THEN CHOOSE a \in 1..Len(regex) :
            /\ MatchesAlt(operationName, regex[a])
            /\ \A b \in 1..(a - 1) : ~MatchesAlt(operationName, regex[b])
    ELSE 0

\* m[1]: the text of operationName the group captured
Captured(operationName) == SubSeq(operationName, 1, Len(regex[match(operationName)]))

\* operationName.replaceAll(new RegExp(regex, 'gi'), ''): the pattern is
\* anchored by ^, so only the occurrence at the start is removed
newRouteName(operationName) ==
    IF match(operationName) = 0 THEN operationName
    ELSE SubSeq(operationName, Len(Captured(operationName)) + 1, Len(operationName))

\* routeOperations after the loop over operationNames: m[1].toLowerCase() of
\* every operation key that matched
routeOperations(names) ==
    { toLowerCase(Captured(names[i])) :
        i \in { j \in 1..Len(names) : match(names[j]) # 0 } }

\* mutant of KeepLonger: the length comparison is dropped, the last candidate wins
KeepLast(current, candidate) == candidate

\* if (newRouteName.length > routeName.length) routeName = newRouteName
KeepLonger(current, candidate) ==
    IF Len(candidate) > Len(current) THEN candidate ELSE current

\* routeName after the loop over operationNames, starting from ''
RECURSIVE LoopRouteName(_, _)
LoopRouteName(current, names) ==
    IF names = <<>> THEN current
    ELSE LoopRouteName(KeepLonger(current, newRouteName(Head(names))), Tail(names))

\* path.replace(/\/$/, ''): one trailing slash removed
StripTrailingSlash(p) ==
    IF p # <<>> /\ p[Len(p)] = 47 THEN SubSeq(p, 1, Len(p) - 1) ELSE p

\* s.split('/').at(-1): the text after the last slash
LastSegment(s) ==
    LET slashes == { i \in 1..Len(s) : s[i] = 47 }
        last    == IF slashes = {} THEN 0
                   ELSE CHOOSE i \in slashes : \A j \in slashes : j <= i
    IN  SubSeq(s, last + 1, Len(s))

\* the condition of the second if: the last segment holds '{' and one of the
\* four operations was recorded
IsDetail(p, ops) ==
    /\ includes(LastSegment(StripTrailingSlash(p)), 123)
    /\ ops \cap {Str_partialupdate, Str_update, Str_retrieve, Str_destroy} # {}

\* the two if statements that append to routeName, one after the other
AppendSuffixes(name, p, ops) ==
    LET afterList == IF Str_list \in ops THEN name \o Suffix_list ELSE name
    IN  IF IsDetail(p, ops) THEN afterList \o Suffix_detail ELSE afterList

\* /(([a-z])(?=[A-Z][a-zA-Z])|([A-Z])(?=[A-Z][a-z]))/g matches the single
\* character at index i
BoundaryAt(s, i) ==
    /\ i + 2 <= Len(s)
    /\ \/ IsLower(s[i]) /\ IsUpper(s[i + 1]) /\ IsLetter(s[i + 2])
       \/ IsUpper(s[i]) /\ IsUpper(s[i + 1]) /\ IsLower(s[i + 2])

\* routeName.replace(<that pattern>, '$1_').toUpperCase()
UpperSnake(s) ==
    toUpperCase(Concat([i \in 1..Len(s) |->
        IF BoundaryAt(s, i) THEN <<s[i], 95>> ELSE <<s[i]>>]))

\* the identifier the callback computes for one Path Entry
SynthesizeRouteName(p, names) ==
    UpperSnake(AppendSuffixes(LoopRouteName(<<>>, names), p, routeOperations(names)))

(***************************************************************************)
(* generate-routes.js: the Map, its sorting and its emission               *)
(***************************************************************************)
Keys(m) == { m[i][1] : i \in 1..Len(m) }
Get(m, k) == LET i == CHOOSE j \in 1..Len(m) : m[j][1] = k IN m[i][2]

\* Map.prototype.set: an existing key keeps its place and takes the new value
MapSet(m, k, v) ==
    IF k \in Keys(m)
    THEN [i \in 1..Len(m) |-> IF m[i][1] = k THEN <<k, v>> ELSE m[i]]
    ELSE Append(m, <<k, v>>)

\* String([key, val]), what Array.prototype.sort compares without a comparator
EntryToString(e) == e[1] \o <<44>> \o e[2]

\* sort() orders a before b when String(a) < String(b)
SortsBefore(a, b) == StrLess(EntryToString(a), EntryToString(b))

\* insertion of e into a sorted array, after the elements not greater (stable)
RECURSIVE InsertSorted(_, _)
InsertSorted(sorted, e) ==
    IF sorted = <<>> THEN <<e>>
    ELSE IF SortsBefore(e, Head(sorted)) THEN <<e>> \o sorted
    ELSE <<Head(sorted)>> \o InsertSorted(Tail(sorted), e)

RECURSIVE SortEntries(_)
SortEntries(es) ==
    IF es = <<>> THEN <<>>
    ELSE InsertSorted(SortEntries(SubSeq(es, 1, Len(es) - 1)), es[Len(es)])

\* new Map(entries): later duplicates of a key overwrite
RECURSIVE NewMap(_, _)
NewMap(m, es) ==
    IF es = <<>> THEN m ELSE NewMap(MapSet(m, Head(es)[1], Head(es)[2]), Tail(es))

\* key.replaceAll('-', '_')
ReplaceHyphens(key) == [i \in 1..Len(key) |-> IF key[i] = 45 THEN 95 ELSE key[i]]

\* the lines buildPathsRecord pushes for the entries, as (key, value) of each
EmitLines(m) == [i \in 1..Len(m) |-> [key |-> ReplaceHyphens(m[i][1]), val |-> m[i][2]]]

(***************************************************************************)
(* generate-routes.js: inputs                                              *)
(***************************************************************************)
MaxEntries == 2   \* Path Entries in the paths interface
MaxOps     == 2   \* operation keys in one Path Entry

Key_listItems    == <<108, 105, 115, 116, 73, 116, 101, 109, 115>>                  \* "listItems"
Key_createItem   == <<99, 114, 101, 97, 116, 101, 73, 116, 101, 109>>               \* "createItem"
Key_retrieveItem == <<114, 101, 116, 114, 105, 101, 118, 101, 73, 116, 101, 109>>   \* "retrieveItem"
Key_myOp         == <<109, 121, 79, 112>>                                           \* "myOp"
Key_myDashOp     == <<109, 121, 45, 111, 112>>                                      \* "my-op"
Key_myOpPlus     == <<109, 121, 79, 112, 43>>                                       \* "myOp+"

Path_items  == <<47, 97, 112, 105, 47, 118, 49, 47, 105, 116, 101, 109, 115, 47>>   \* "/api/v1/items/"
Path_item   == <<47, 97, 112, 105, 47, 118, 49, 47, 105, 116, 101, 109, 115, 47, 123, 105, 100, 125, 47>>  \* "/api/v1/items/{id}/"
Path_nested == <<47, 97, 112, 105, 47, 118, 49, 47, 123, 105, 100, 125, 47, 105, 116, 101, 109, 115, 47>>  \* "/api/v1/{id}/items/"

OperationKeys == {Key_listItems, Key_createItem, Key_retrieveItem,
                  Key_myOp, Key_myDashOp, Key_myOpPlus}
PathTemplates == {Path_items, Path_item, Path_nested}

\* a property signature of a Path Entry's type: its type is operations["key"]
\* (an indexed access type whose index is the literal key), or any other type
\* (parameters: {...}, put?: never, an inline operation), which has no indexType
OperationRef(key) == [indexType |-> TRUE, text |-> key]
OtherMember       == [indexType |-> FALSE, text |-> <<>>]
MemberNodes == { OperationRef(key) : key \in OperationKeys } \cup {OtherMember}

\* the operation-maps of a Path Entry: its property signatures in source order
\* (an operation key names one operation, so the members of an entry differ)
OperationMaps ==
    { nodes \in UNION { [1..n -> MemberNodes] : n \in 0..MaxOps } :
        \A i, j \in 1..Len(nodes) : nodes[i] = nodes[j] => i = j }

\* operationNames after the inner ts.forEachChild: the key of every member, up
\* to the first member without indexType, where line 207 throws
RECURSIVE PushedNames(_)
PushedNames(nodes) ==
    IF nodes = <<>> \/ ~Head(nodes).indexType THEN <<>>
    ELSE <<Head(nodes).text>> \o PushedNames(Tail(nodes))

\* operationsNode.type.indexType.literal.text throws a TypeError for some member
Throws(nodes) == \E i \in 1..Len(nodes) : ~nodes[i].indexType

(***************************************************************************)
(* generate-routes.js: the script                                          *)
(***************************************************************************)
RouteInit ==
    /\ rpc = "extract"
    /\ members = <<>>
    /\ paths = <<>>
    /\ path = <<>>
    /\ operationsNodes = <<>>
    /\ operationNames = <<>>
    /\ routeName = <<>>
    /\ result = <<>>
    /\ output = <<>>

\* the callback of ts.forEachChild(rootNodes, ...) for one property signature
\* of the paths interface (p: its name, nodes: the property signatures of its
\* type); the members of an interface have distinct names.  When a member of
\* the type has no indexType the callback throws before routeName is declared
\* and nothing catches the error: extractPaths and the script end there.
VisitPathEntry ==
    /\ rpc = "extract"
    /\ Len(members) < MaxEntries
    /\ \E p \in PathTemplates \ { members[i] : i \in 1..Len(members) },
          nodes \in OperationMaps :
          /\ members' = Append(members, p)
          /\ path' = p
          /\ operationsNodes' = nodes
          /\ operationNames' = PushedNames(nodes)
          /\ IF Throws(nodes)
             THEN /\ rpc' = "thrown"
                  /\ routeName' = <<>>
                  /\ paths' = paths
             ELSE /\ rpc' = rpc
                  /\ routeName' = SynthesizeRouteName(p, operationNames')
                  /\ paths' = MapSet(paths, routeName', p)
    /\ UNCHANGED <<result, output>>
    /\ UNCHANGED typeVars

\* return new Map([...paths.entries()].sort())
ReturnSorted ==
    /\ rpc = "extract"
    /\ result' = NewMap(<<>>, SortEntries(paths))
    /\ rpc' = "sorted"
    /\ UNCHANGED <<members, paths, path, operationsNodes, operationNames, routeName,
                   output>>
    /\ UNCHANGED typeVars

\* buildPathsRecord(extractPaths(filePath), recordName)
BuildPathsRecord ==
    /\ rpc = "sorted"
    /\ output' = EmitLines(result)
    /\ rpc' = "emitted"
    /\ UNCHANGED <<members, paths, path, operationsNodes, operationNames, routeName,
                   result>>
    /\ UNCHANGED typeVars

RouteNext ==
    \/ VisitPathEntry
    \/ ReturnSorted
    \/ BuildPathsRecord

(***************************************************************************)
(* generate-types.js: names and texts                                      *)
(***************************************************************************)
Name_Object == <<79, 98, 106, 101, 99, 116>>   \* "Object"
Name_Item   == <<73, 116, 101, 109>>           \* "Item"
Name_A_B    == <<65, 36, 66>>                  \* "A$B"
Name_my_schema == <<109, 121, 45, 115, 99, 104, 101, 109, 97>>   \* "my-schema"
Str_string  == <<115, 116, 114, 105, 110, 103>>  \* "string"

\* components["schemas"]["
RefOpen  == <<99, 111, 109, 112, 111, 110, 101, 110, 116, 115, 91, 34, 115, 99,
              104, 101, 109, 97, 115, 34, 93, 91, 34>>
\* "]
RefClose == <<34, 93>>
\* import("./components/schemas.d.ts").
ImportPrefix == <<105, 109, 112, 111, 114, 116, 40, 34, 46, 47, 99, 111, 109, 112,
                  111, 110, 101, 110, 116, 115, 47, 115, 99, 104, 101, 109, 97,
                  115, 46, 100, 46, 116, 115, 34, 41, 46>>

ROUTE_TYPES_FILE  == "./src/api-types/routeTypes.d.ts"
SCHEMA_TYPES_FILE == "./src/api-types/components/schemas.d.ts"
builtinNames == {Name_Object}

\* a name that TypeScript reads as an identifier: a letter, _ or $, then
\* letters, digits, _ or $
IsIdentifierName(name) ==
    /\ name # <<>>
    /\ IsLetter(name[1]) \/ name[1] \in {36, 95}
    /\ \A i \in 1..Len(name) : IsWordChar(name[i]) \/ name[i] = 36

\* the name of a member of components.schemas as the fetched unit writes it,
\* which is what property.getStructure().name returns: the key itself when it
\* is an identifier, the key as a string literal, quotes included, otherwise
PropertyName(key) == IF IsIdentifierName(key) THEN key ELSE <<34>> \o key \o <<34>>

\* builtinNames.includes(name) ? name + '_' : name
TargetName(name) == IF name \in builtinNames THEN name \o <<95>> ELSE name

\* number of \w characters of text from index i on
RECURSIVE WordRun(_, _)
WordRun(text, i) ==
    IF i <= Len(text) /\ IsWordChar(text[i]) THEN 1 + WordRun(text, i + 1) ELSE 0

\* text.replaceAll(/components\["schemas"]\["(\w+)"]/g, (_, name) => ...), from
\* index i on: a match is RefOpen, a non-empty run of \w, then RefClose
RECURSIVE ReplaceFrom(_, _)
ReplaceFrom(text, i) ==
    IF i > Len(text) THEN <<>>
    ELSE LET from == i + Len(RefOpen)
             n    == WordRun(text, from)
         IN  IF OccursAt(text, RefOpen, i) /\ n > 0 /\ OccursAt(text, RefClose, from + n)
             THEN TargetName(SubSeq(text, from, from + n - 1))
                      \o ReplaceFrom(text, from + n + Len(RefClose))
             ELSE <<text[i]>> \o ReplaceFrom(text, i + 1)

ReplaceRefs(text) == ReplaceFrom(text, 1)

(***************************************************************************)
(* generate-types.js: inputs                                               *)
(***************************************************************************)
MaxProps == 1     \* fields of a record-shaped Schema Entry
MaxSchemas == 1   \* Schema Entries of the fetched unit

\* keys of components.schemas: an ordinary name, the reserved name, an
\* identifier with a character outside \w, and a key that needs quoting
SchemaNames == {Name_Item, Name_Object, Name_A_B, Name_my_schema}

\* a type expression of the fetched unit: a primitive, or a reference to a
\* Schema Entry
TypeExprs == {[ref |-> FALSE, name |-> Str_string]}
                 \cup { [ref |-> TRUE, name |-> n] : n \in SchemaNames }

\* a Schema Entry: a record (type literal) with its fields' types in order, or
\* any other shape with its one type expression
Shapes == { [literal |-> TRUE, types |-> ts] :
                ts \in UNION { [1..n -> TypeExprs] : n \in 0..MaxProps } }
              \cup { [literal |-> FALSE, types |-> <<t>>] : t \in TypeExprs }

\* the members of components.schemas: distinct names, in source order
SchemaRecords ==
    { es \in UNION { [1..n -> SchemaNames \X Shapes] : n \in 0..MaxSchemas } :
        \A i, j \in 1..Len(es) : es[i][1] = es[j][1] => i = j }

\* the declaration units openapiTS may resolve to
Units ==
    { [components |-> TRUE, schemas |-> TRUE, entries |-> es] : es \in SchemaRecords }
        \cup { [components |-> c, schemas |-> FALSE, entries |-> <<>>] : c \in BOOLEAN }

\* the source text of a type expression
TypeText(t) == IF t.ref THEN RefOpen \o t.name \o RefClose ELSE t.name

\* the source text of the i-th field of a record: a: <type>;
PropText(i, t) == <<96 + i, 58, 32>> \o TypeText(t) \o <<59>>

\* project.addSourceFileAtPath(ROUTE_TYPES_FILE): the members of
\* components.schemas as nodes carrying their source text
ParseEntry(e) ==
    [name    |-> PropertyName(e[1]),
     literal |-> e[2].literal,
     props   |-> IF e[2].literal
                 THEN [i \in 1..Len(e[2].types) |-> PropText(i, e[2].types[i])]
                 ELSE <<>>,
     type    |-> IF e[2].literal
                 THEN <<123>> \o Concat([i \in 1..Len(e[2].types) |->
                                            PropText(i, e[2].types[i])]) \o <<125>>
                 ELSE TypeText(e[2].types[1])]

Parse(u) ==
    [components |-> u.components,
     schemas    |-> u.schemas,
     properties |-> [i \in 1..Len(u.entries) |-> ParseEntry(u.entries[i])]]

(***************************************************************************)
(* generate-types.js: the script                                           *)
(***************************************************************************)
NoUnit == [components |-> FALSE, schemas |-> FALSE, properties |-> <<>>]

TypeInit ==
    /\ tpc = "mkdir"
    /\ written = {}
    /\ commonRouteTypes = [components |-> FALSE, schemas |-> FALSE, entries |-> <<>>]
    /\ routeTypesFile = NoUnit
    /\ next = 0
    /\ schemasFile = <<>>
    /\ pending = {}
    /\ outcome = "running"

\* the two fs.mkdirSync calls
EnsureDirectories ==
    /\ tpc = "mkdir"
    /\ written' = written \cup {"./src/api-types", "./src/api-types/components"}
    /\ tpc' = "fetch"
    /\ UNCHANGED <<commonRouteTypes, routeTypesFile, next, schemasFile, pending, outcome>>
    /\ UNCHANGED routeVars

\* await openapiTS(OAPI_SCHEMA_URL) resolves
FetchResolves ==
    /\ tpc = "fetch"
    /\ \E u \in Units : commonRouteTypes' = u
    /\ tpc' = "write"
    /\ UNCHANGED <<written, routeTypesFile, next, schemasFile, outcome, pending>>
    /\ UNCHANGED routeVars

\* mutant of FetchRejects: the rejection is swallowed and the run goes on to
\* write what it has (nothing) to the route types file
FetchRejectsWriteAnyway ==
    /\ tpc = "fetch"
    /\ tpc' = "exit"
    /\ outcome' = "fetch error"
    /\ written' = written \cup {ROUTE_TYPES_FILE}
    /\ UNCHANGED <<commonRouteTypes, routeTypesFile, next, schemasFile, pending>>
    /\ UNCHANGED routeVars

\* await openapiTS(OAPI_SCHEMA_URL) rejects: nothing catches it, the module
\* evaluation ends there
FetchRejects ==
    /\ tpc = "fetch"
    /\ tpc' = "exit"
    /\ outcome' = "fetch error"
    /\ UNCHANGED <<written, commonRouteTypes, routeTypesFile, next, schemasFile, pending>>
    /\ UNCHANGED routeVars

\* fs.writeFileSync(ROUTE_TYPES_FILE, commonRouteTypes), then the Project reads
\* the file back and creates the empty schemas source file in memory
WriteAndParse ==
    /\ tpc = "write"
    /\ written' = written \cup {ROUTE_TYPES_FILE}
    /\ routeTypesFile' = Parse(commonRouteTypes)
    /\ schemasFile' = <<>>
    /\ tpc' = "lookup"
    /\ UNCHANGED <<commonRouteTypes, next, outcome, pending>>
    /\ UNCHANGED routeVars

\* routeTypesFile.getInterface('components').getProperty('schemas') and
\* componentsInterface.getTypeNode().getProperties(): both lookups return
\* undefined for a missing node and the next call on it throws a TypeError
LookupSchemas ==
    /\ tpc = "lookup"
    /\ IF routeTypesFile.components /\ routeTypesFile.schemas
       THEN tpc' = "loop" /\ UNCHANGED outcome
       ELSE tpc' = "exit" /\ outcome' = "TypeError"
    /\ UNCHANGED <<written, commonRouteTypes, routeTypesFile, next, schemasFile, pending>>
    /\ UNCHANGED routeVars

\* the declaration added for one member of SchemasProperties
Declaration(property) ==
    IF property.literal
    THEN [kind    |-> "interface",
          name    |-> TargetName(property.name),
          members |-> [i \in 1..Len(property.props) |-> ReplaceRefs(property.props[i])],
          type    |-> <<>>]
    ELSE [kind    |-> "typeAlias",
          name    |-> TargetName(property.name),
          members |-> <<>>,
          type    |-> ReplaceRefs(property.type)]

\* property.set({type: w => w.write(`import("./components/schemas.d.ts").${name}`)})
SetStub(property) ==
    [name    |-> property.name,
     literal |-> FALSE,
     props   |-> <<>>,
     type    |-> ImportPrefix \o TargetName(property.name)]

\* one iteration of for (const property of SchemasProperties).  The name is
\* handed to addInterface / addTypeAlias and written into the stub as it is.
\* For a name that is no identifier (a quoted key) the inserted text is no
\* declaration; the source does not fix what ts-morph does with it, so both
\* outcomes are kept: the manipulation is rejected with an error that nothing
\* catches, or the text is inserted as written.
FlattenProperty ==
    /\ tpc = "loop"
    /\ next < Len(routeTypesFile.properties)
    /\ LET property == routeTypesFile.properties[next + 1]
       IN  \/ /\ schemasFile' = Append(schemasFile, Declaration(property))
              /\ routeTypesFile' =
                     [routeTypesFile EXCEPT !.properties[next + 1] = SetStub(property)]
              /\ next' = next + 1
              /\ UNCHANGED <<tpc, outcome>>
           \/ /\ ~IsIdentifierName(TargetName(property.name))
              /\ tpc' = "exit"
              /\ outcome' = "Error"
              /\ UNCHANGED <<schemasFile, routeTypesFile, next>>
    /\ UNCHANGED <<written, commonRouteTypes, pending>>
    /\ UNCHANGED routeVars

\* the loop is over: schemasFile.formatText({}) and the two save() calls start
StartSaves ==
    /\ tpc = "loop"
    /\ next = Len(routeTypesFile.properties)
    /\ pending' = {SCHEMA_TYPES_FILE, ROUTE_TYPES_FILE}
    /\ tpc' = "save"
    /\ UNCHANGED <<written, commonRouteTypes, routeTypesFile, next, schemasFile, outcome>>
    /\ UNCHANGED routeVars

\* one of the two asynchronous saves completes; the process ends after both
SaveCompletes(file) ==
    /\ tpc = "save"
    /\ file \in pending
    /\ written' = written \cup {file}
    /\ pending' = pending \ {file}
    /\ IF pending \ {file} = {}
       THEN tpc' = "exit" /\ outcome' = "ok"
       ELSE UNCHANGED <<tpc, outcome>>
    /\ UNCHANGED <<commonRouteTypes, routeTypesFile, next, schemasFile>>
    /\ UNCHANGED routeVars

TypeNext ==
    \/ EnsureDirectories
    \/ FetchResolves
    \/ FetchRejects
    \/ WriteAndParse
    \/ LookupSchemas
    \/ FlattenProperty
    \/ StartSaves
    \/ \E file \in {ROUTE_TYPES_FILE, SCHEMA_TYPES_FILE} : SaveCompletes(file)

Init == RouteInit /\ TypeInit

\* node src/tools/generate-routes.js
SpecRoutes == Init /\ [][RouteNext]_vars

\* node src/tools/generate-types.js
SpecTypes == Init /\ [][TypeNext]_vars

(***************************************************************************)
(* Properties of generate-routes.js                                        *)
(***************************************************************************)
Visited == members # <<>>
Returned == rpc \in {"sorted", "emitted"}

\* C1 (as claimed): the map extractPaths returns has exactly as many entries
\* as the paths interface has Path Entries.
C1_OneRouteEntryPerPathEntry ==
    Returned => Len(result) = Len(members)

\* the suffix rule as the specification words it: _list, else _detail, else none
ExclusiveSuffix(p, ops) ==
    IF Str_list \in ops THEN Suffix_list
    ELSE IF /\ includes(LastSegment(StripTrailingSlash(p)), 123)
            /\ ops \cap {Str_partialupdate, Str_update, Str_retrieve, Str_destroy} # {}
         THEN Suffix_detail
         ELSE <<>>

\* C2 (as claimed): the identifier of every Path Entry is its working name
\* with exactly one of _list, _detail or nothing appended, _list taking
\* precedence; no identifier carries both suffixes.
C2_SuffixIsExclusive ==
    (Visited /\ rpc # "thrown") =>
        routeName = UpperSnake(LoopRouteName(<<>>, operationNames)
                       \o ExclusiveSuffix(path, routeOperations(operationNames)))

Str_ITEM_LIST  == <<73, 84, 69, 77, 95, 76, 73, 83, 84>>       \* "ITEM_LIST"
Str_ITEMS_LIST == <<73, 84, 69, 77, 83, 95, 76, 73, 83, 84>>   \* "ITEMS_LIST"

ItemsEntryVisited ==
    /\ Visited
    /\ path = Path_items
    /\ operationsNodes = <<OperationRef(Key_listItems), OperationRef(Key_createItem)>>

\* C3 (as claimed): the Path Entry "/api/v1/items/" with the operation keys
\* listItems, createItem yields the identifier ITEM_LIST.
C3_ItemsEntryIsITEM_LIST ==
    ItemsEntryVisited => routeName = Str_ITEM_LIST

\* C3 (amended): the Path Entry "/api/v1/items/" whose members are the two
\* operation references listItems, createItem yields the identifier
\* ITEMS_LIST, the longest base name "Items" with _list appended, and the map
\* holds the path under it.
C3_ItemsEntryIsITEMS_LIST ==
    ItemsEntryVisited =>
        /\ routeName = Str_ITEMS_LIST
        /\ Str_ITEMS_LIST \in Keys(paths)
        /\ Get(paths, Str_ITEMS_LIST) = Path_items

\* C3 witness: the entry is visited second, after another entry
C3_Witness ==
    ItemsEntryVisited /\ Len(members) = 2

\* C4 (as claimed): the entries of the returned map iterate in strictly
\* ascending order of the identifier alone, compared by code unit.
C4_SortedByIdentifier ==
    Returned =>
        \A i \in 1..(Len(result) - 1) : StrLess(result[i][1], result[i + 1][1])

NoKeyMatches(names) == \A i \in 1..Len(names) : match(names[i]) = 0

\* the operation keys of a Path Entry: the keys of its operation references
RECURSIVE OperationKeysOf(_)
OperationKeysOf(nodes) ==
    IF nodes = <<>> THEN <<>>
    ELSE (IF Head(nodes).indexType THEN <<Head(nodes).text>> ELSE <<>>)
             \o OperationKeysOf(Tail(nodes))

\* the longest of the raw operation keys, the first one on ties ('' for none)
FirstLongest(names) ==
    IF names = <<>> THEN <<>>
    ELSE names[CHOOSE i \in 1..Len(names) :
                  /\ \A j \in 1..Len(names) : Len(names[j]) <= Len(names[i])
                  /\ \A j \in 1..(i - 1) : Len(names[j]) < Len(names[i])]

\* C7 (as claimed): for a Path Entry none of whose operation keys matches the
\* alternation (an empty operation-map included) extractPaths does not throw,
\* the identifier is the upper-snake-cased longest raw key, first longest on
\* ties, with no suffix whatever the path, and the map holds the entry's path
\* under that identifier.
C7_UnrecognizedKeysFallBack ==
    (Visited /\ NoKeyMatches(OperationKeysOf(operationsNodes))) =>
        /\ rpc # "thrown"
        /\ routeName = UpperSnake(FirstLongest(OperationKeysOf(operationsNodes)))
        /\ routeName \in Keys(paths)
        /\ Get(paths, routeName) = path

\* C10 (as claimed): no two lines of the emitted constant carry the same key.
C10_EmittedKeysDistinct ==
    rpc = "emitted" =>
        \A i, j \in 1..Len(output) : output[i].key = output[j].key => i = j

(***************************************************************************)
(* Properties of generate-types.js                                         *)
(***************************************************************************)
LoopDone == tpc = "save" \/ (tpc = "exit" /\ outcome = "ok")

\* the name a Schema Entry named X is to be declared under
DeclaredName(X) == IF X \in builtinNames THEN X \o <<95>> ELSE X

\* a type expression with its reference resolved to the declared name
ResolvedText(t) == IF t.ref THEN DeclaredName(t.name) ELSE t.name

Contains(text, t) == \E i \in 1..Len(text) : OccursAt(text, t, i)

\* C5 (as claimed): after the loop every reference components["schemas"]["X"]
\* of a shape appears in the schemas output as the declared name of X, and no
\* declaration still contains the indirect form.
C5_ReferencesResolved ==
    LoopDone =>
        \A i \in 1..Len(schemasFile) :
            LET shape == commonRouteTypes.entries[i][2]
                decl  == schemasFile[i]
            IN  /\ shape.literal =>
                      /\ Len(decl.members) = Len(shape.types)
                      /\ \A k \in 1..Len(shape.types) :
                            /\ decl.members[k] =
                                  <<96 + k, 58, 32>> \o ResolvedText(shape.types[k]) \o <<59>>
                            /\ ~Contains(decl.members[k], RefOpen)
                /\ ~shape.literal =>
                      /\ decl.type = ResolvedText(shape.types[1])
                      /\ ~Contains(decl.type, RefOpen)

\* the loop over components.schemas has ended, by running out of members or
\* by an error thrown inside it
LoopEnded == LoopDone \/ (tpc = "exit" /\ outcome = "Error")

\* C6 (as claimed): for every components.schemas record the loop completes
\* and the schemas output holds one declaration per Schema Entry, in order: an
\* interface for a type literal (also an empty one), a type alias otherwise,
\* named for the entry (X, or X_ for a reserved X); and every member of
\* components.schemas is a stub that names that declaration.
C6_OneDeclarationPerEntry ==
    LoopEnded =>
        /\ outcome # "Error"
        /\ Len(schemasFile) = Len(commonRouteTypes.entries)
        /\ Len(routeTypesFile.properties) = Len(commonRouteTypes.entries)
        /\ \A i \in 1..Len(commonRouteTypes.entries) :
              LET entry == commonRouteTypes.entries[i]
              IN  /\ schemasFile[i].kind =
                        (IF entry[2].literal THEN "interface" ELSE "typeAlias")
                  /\ schemasFile[i].name =
                        (IF entry[1] = Name_Object THEN entry[1] \o <<95>> ELSE entry[1])
                  /\ routeTypesFile.properties[i].type = ImportPrefix \o schemasFile[i].name

StructureMissing == ~(commonRouteTypes.components /\ commonRouteTypes.schemas)

\* C8 (as claimed): a unit without the components interface or without its
\* schemas property ends the run in a reported configuration error, not in an
\* uncaught exception.
C8_MissingStructureIsReported ==
    (tpc = "exit" /\ ROUTE_TYPES_FILE \in written /\ StructureMissing) =>
        outcome = "configuration error"

\* C9: no output file is written before the fetch has succeeded, and a run
\* whose fetch failed has written neither output file.
C9_NoOutputWithoutFetch ==
    (tpc \in {"mkdir", "fetch"} \/ outcome = "fetch error") =>
        written \cap {ROUTE_TYPES_FILE, SCHEMA_TYPES_FILE} = {}

\* C9 witness: the fetch failed after the directories were created
C9_Witness ==
    /\ tpc = "exit"
    /\ outcome = "fetch error"
    /\ "./src/api-types/components" \in written
====
